---- MODULE Spec2Model ----
(***************************************************************************)
(* The batch orchestrators of the embryoscope-extraction repository, as a  *)
(* state machine of cmd.exe running one batch file (and the batch files it *)
(* calls).  Every batch is a sequence of steps; a step is one command of   *)
(* the batch together with the `if %errorlevel% ...` block that follows    *)
(* it.  The pipeline scripts themselves are the environment: a script      *)
(* terminates with any exit code of ExitCodes.                             *)
(***************************************************************************)
EXTENDS Integers, Sequences, FiniteSets, TLC

VARIABLES stack, errorlevel, env, running, trace, output, returns,
          api_results, missing,
          results, bronze_logs, silver_latest, gold_changes,
          bronze_table, loads,
          pending, attempt, token_valid, checked, api_calls,
          installs

(* The tables of the image availability pipeline and the JSON results the  *)
(* check writes under api_results.                                         *)
lake == <<results, bronze_logs, silver_latest, gold_changes>>

(* A bronze table of the hash-based loader and the loads made into it. *)
loader == <<bronze_table, loads>>

(* The loop of the image availability check over the embryos. *)
checker == <<pending, attempt, token_valid, checked, api_calls>>

vars == <<stack, errorlevel, env, running, trace, output, returns,
          api_results, missing, lake, loader, checker, installs>>

(* Exit codes a process can hand to cmd.exe: success, a failure, and a     *)
(* negative code (a signed 32-bit errorlevel, e.g. sys.exit(-1)).          *)
MaxExitCode == 1

ExitCodes == (0 - MaxExitCode)..MaxExitCode

Modes == {"new", "retry", "all"}

Limits == {"5"}

(***************************************************************************)
(* Steps.  Every step is a record of the same shape:                       *)
(*   kind   what the command is                                            *)
(*   cmd    the script, batch file or variable the command names           *)
(*   args   the arguments of the command (a tag or a sequence)             *)
(*   test   how the following block tests the exit code:                   *)
(*          "neq0" = if %errorlevel% neq 0, "ge1" = if errorlevel 1,       *)
(*          "none" = no test                                               *)
(*   onfail what the block does: "exit1", "warn", "goto"                   *)
(*   target the label of a goto                                            *)
(*   label  the label that precedes the step                               *)
(*   text   the message the block echoes (or the default of a variable)    *)
(*   optargs the arguments the command gets in addition when %LIMIT% is    *)
(*          not empty (the else branch of if "%LIMIT%"=="")                *)
(***************************************************************************)
S(kind, cmd, args, test, onfail, target, label, text) ==
    [kind |-> kind, cmd |-> cmd, args |-> args, test |-> test,
     onfail |-> onfail, target |-> target, label |-> label, text |-> text,
     optargs |-> <<>>]

SetArgs(var, default) == S("setargs", var, <<>>, "none", "none", "", "", <<default>>)

Cd(test, text) == S("cd", "%~dp0", <<>>, test, "exit1", "", "", text)

Activate(test, text) == S("activate", "try_request", <<>>, test, "exit1", "", "", text)

Probe(cmd, test, onfail, target, text) == S("probe", cmd, <<>>, test, onfail, target, "", text)

Packages(test, text) == S("packages", "pip install", <<>>, test, "exit1", "", "", text)

Python(script, args, test, onfail, text) == S("python", script, args, test, onfail, "", "", text)

PythonAt(label, script, args, test, onfail, target, text) ==
    S("python", script, args, test, onfail, target, label, text)

PythonOpt(script, args, optargs, test, onfail, text) ==
    [Python(script, args, test, onfail, text) EXCEPT !.optargs = optargs]

Call(batch, args, text) == S("call", batch, args, "neq0", "exit1", "", "", text)

FindDir == S("finddir", "api_results", <<>>, "none", "exit0", "found_dir", "",
             <<"WARNING: ", "No results directory found - no embryos were checked">>)

Echo(text) == S("echo", "", <<>>, "none", "none", "", "", text)

End(code, text) == S("end", "", <<>>, "none", code, "", "", text)

NoArgs == <<>>


(***************************************************************************)
(* clinisys\00_run_dataflow_clinisys.bat                                   *)
(***************************************************************************)
Clinisys_STEP_1 ==
    Python("01_source_to_bronze.py", NoArgs, "neq0", "exit1",
           <<"ERROR: ", "Step ", "%PARENT_STEP%", ".1 failed">>)

(* Step .2 with the block of step .3: a warning instead of exit /b 1 *)
Clinisys_STEP_2_Warns ==
    Python("02_01_bronze_to_silver.py", NoArgs, "neq0", "warn",
           <<"WARNING: ", "Step ", "%PARENT_STEP%", ".2 had issues, but continuing...">>)

Clinisys_STEP_2 ==
    Python("02_01_bronze_to_silver.py", NoArgs, "neq0", "exit1",
           <<"ERROR: ", "Step ", "%PARENT_STEP%", ".2 failed">>)

(* Step .3 with the block of the other steps: exit /b 1 *)
Clinisys_STEP_3_Stops ==
    Python("02_02_compare_bronze_and_silver.py", NoArgs, "neq0", "exit1",
           <<"ERROR: ", "Step ", "%PARENT_STEP%", ".3 failed">>)

Clinisys_STEP_3 ==
    Python("02_02_compare_bronze_and_silver.py", NoArgs, "neq0", "warn",
           <<"WARNING: ", "Step ", "%PARENT_STEP%", ".3 had issues, but continuing...">>)

Clinisys_STEP_4 ==
    Python("03_silver_to_gold.py", NoArgs, "neq0", "exit1",
           <<"ERROR: ", "Step ", "%PARENT_STEP%", ".4 failed">>)

ClinisysDataflow ==
    << SetArgs("PARENT_STEP", "1"),
       Cd("neq0", <<"ERROR: ", "Failed to change to clinisys directory">>),
       Activate("none", <<>>),
       Clinisys_STEP_1,
       Clinisys_STEP_2,
       Clinisys_STEP_3,
       Clinisys_STEP_4,
       End("0", <<"DATAFLOW COMPLETED SUCCESSFULLY!">>) >>

(***************************************************************************)
(* embryoscope\01_get_embryo_data\00_run_dataflow_embryoscope.bat          *)
(***************************************************************************)
(* Step .1 with a warning instead of exit /b 1 *)
Embryoscope_STEP_1_Warns ==
    Python("01_source_to_bronze.py", NoArgs, "neq0", "warn",
           <<"WARNING: ", "Step ", "%PARENT_STEP%", ".1 had issues, but continuing...">>)

Embryoscope_STEP_1 ==
    Python("01_source_to_bronze.py", NoArgs, "neq0", "exit1",
           <<"ERROR: ", "Step ", "%PARENT_STEP%", ".1 failed">>)

Embryoscope_STEP_2 ==
    Python("02_01_bronze_to_silver.py", NoArgs, "neq0", "exit1",
           <<"ERROR: ", "Step ", "%PARENT_STEP%", ".2 failed">>)

Embryoscope_STEP_3 ==
    Python("02_02_cleanup_silver_layer.py", NoArgs, "neq0", "exit1",
           <<"ERROR: ", "Step ", "%PARENT_STEP%", ".3 failed">>)

Embryoscope_STEP_4 ==
    Python("02_03_consolidate_embryoscope_dbs.py", NoArgs, "neq0", "exit1",
           <<"ERROR: ", "Step ", "%PARENT_STEP%", ".4 failed">>)

Embryoscope_STEP_5 ==
    Python("03_consolidated_to_gold.py", NoArgs, "neq0", "exit1",
           <<"ERROR: ", "Step ", "%PARENT_STEP%", ".5 failed">>)

EmbryoscopeDataflow ==
    << SetArgs("PARENT_STEP", "2"),
       Cd("neq0", <<"ERROR: ", "Failed to change to embryoscope directory">>),
       Activate("none", <<>>),
       Embryoscope_STEP_1,
       Embryoscope_STEP_2,
       Embryoscope_STEP_3,
       Embryoscope_STEP_4,
       Embryoscope_STEP_5,
       End("0", <<"DATAFLOW COMPLETED SUCCESSFULLY!">>) >>

(***************************************************************************)
(* embryoscope\02_images_availability_report\                              *)
(*     00_run_image_availability_pipeline.bat                              *)
(***************************************************************************)
ImageAvailability_STEP_1 ==
    PythonOpt("01_check_image_availability.py", <<"--mode", "%MODE%">>,
              <<"--limit", "%LIMIT%">>, "neq0", "exit1",
              <<"ERROR: ", "Step 1 failed">>)

ImageAvailability_STEP_2 ==
    PythonAt("found_dir", "02_logs_to_bronze.py",
             <<"--input-dir", "%RESULTS_DIR%">>, "neq0", "exit1", "",
             <<"ERROR: ", "Step 2 failed">>)

(* Step 3 without the test of its exit code *)
ImageAvailability_STEP_3_Unchecked ==
    Python("03_bronze_to_silver.py", NoArgs, "none", "exit1",
           <<"ERROR: ", "Step 3 failed">>)

(* Step 3 with the block of step 5: a warning instead of exit /b 1 *)
ImageAvailability_STEP_3_Warns ==
    Python("03_bronze_to_silver.py", NoArgs, "neq0", "warn",
           <<"WARNING: ", "Step 3 failed (non-critical)">>)

ImageAvailability_STEP_3 ==
    Python("03_bronze_to_silver.py", NoArgs, "neq0", "exit1",
           <<"ERROR: ", "Step 3 failed">>)

ImageAvailability_STEP_4 ==
    Python("04_track_changes_to_gold.py", NoArgs, "neq0", "exit1",
           <<"ERROR: ", "Step 4 failed">>)

(* Step 5 with a failure that ends the batch *)
ImageAvailability_STEP_5_Stops ==
    Python("05_cleanup_logs.py", NoArgs, "neq0", "exit1",
           <<"WARNING: ", "Cleanup step failed (non-critical)">>)

ImageAvailability_STEP_5 ==
    Python("05_cleanup_logs.py", NoArgs, "neq0", "warn",
           <<"WARNING: ", "Cleanup step failed (non-critical)">>)

(* The pipeline with steps 2 and 3 in the other order *)
ImageAvailabilityPipeline_SilverFirst ==
    << SetArgs("MODE", "retry"),
       Cd("neq0", <<"ERROR: ", "Failed to change to report directory">>),
       Activate("neq0", <<"ERROR: ", "Failed to activate conda environment">>),
       ImageAvailability_STEP_1,
       FindDir,
       [ImageAvailability_STEP_3 EXCEPT !.label = "found_dir"],
       [ImageAvailability_STEP_2 EXCEPT !.label = ""],
       ImageAvailability_STEP_4,
       ImageAvailability_STEP_5,
       End("0", <<"PIPELINE COMPLETED SUCCESSFULLY!">>) >>

ImageAvailabilityPipeline ==
    << SetArgs("MODE", "retry"),
       Cd("neq0", <<"ERROR: ", "Failed to change to report directory">>),
       Activate("neq0", <<"ERROR: ", "Failed to activate conda environment">>),
       ImageAvailability_STEP_1,
       FindDir,
       ImageAvailability_STEP_2,
       ImageAvailability_STEP_3,
       ImageAvailability_STEP_4,
       ImageAvailability_STEP_5,
       End("0", <<"PIPELINE COMPLETED SUCCESSFULLY!">>) >>

(***************************************************************************)
(* data_lake_scripts\00_run_dataflow_lake_only.bat                         *)
(***************************************************************************)
LakeOnly_STEP_1 ==
    Python("01_merge_clinisys_embryoscope.py", NoArgs, "neq0", "exit1",
           <<"ERROR: ", "Step ", "%PARENT_STEP%", ".1 failed">>)

DataflowLakeOnly ==
    << SetArgs("PARENT_STEP", "3"),
       Cd("neq0", <<"ERROR: ", "Failed to change to data_lake_scripts directory">>),
       Activate("none", <<>>),
       LakeOnly_STEP_1,
       End("0", <<"DATA LAKE CONSOLIDATION COMPLETED SUCCESSFULLY!">>) >>

(***************************************************************************)
(* The data lake consolidation batch with three steps (an unnamed source   *)
(* file of the repository).                                                *)
(***************************************************************************)
(* The consolidation with steps .2 and .3 in the other order *)
DataLakeConsolidation_Swapped ==
    << SetArgs("PARENT_STEP", "3"),
       Cd("neq0", <<"ERROR: ", "Failed to change to data_lake_scripts directory">>),
       Activate("none", <<>>),
       Python("01_merge_clinisys_embryoscope.py", NoArgs, "neq0", "exit1",
              <<"ERROR: ", "Step ", "%PARENT_STEP%", ".1 failed">>),
       Python("03_combine_embryoscope_planilha.py", NoArgs, "neq0", "exit1",
              <<"ERROR: ", "Step ", "%PARENT_STEP%", ".2 failed">>),
       Python("02_combine_redlara_planilha.py", NoArgs, "neq0", "exit1",
              <<"ERROR: ", "Step ", "%PARENT_STEP%", ".3 failed">>),
       End("0", <<"DATA LAKE CONSOLIDATION COMPLETED SUCCESSFULLY!">>) >>

DataLakeConsolidation ==
    << SetArgs("PARENT_STEP", "3"),
       Cd("neq0", <<"ERROR: ", "Failed to change to data_lake_scripts directory">>),
       Activate("none", <<>>),
       Python("01_merge_clinisys_embryoscope.py", NoArgs, "neq0", "exit1",
              <<"ERROR: ", "Step ", "%PARENT_STEP%", ".1 failed">>),
       Python("02_combine_redlara_planilha.py", NoArgs, "neq0", "exit1",
              <<"ERROR: ", "Step ", "%PARENT_STEP%", ".2 failed">>),
       Python("03_combine_embryoscope_planilha.py", NoArgs, "neq0", "exit1",
              <<"ERROR: ", "Step ", "%PARENT_STEP%", ".3 failed">>),
       End("0", <<"DATA LAKE CONSOLIDATION COMPLETED SUCCESSFULLY!">>) >>

(***************************************************************************)
(* planilha_ploidia\00_run_ploidia_pipeline.bat                            *)
(***************************************************************************)
PloidiaPipeline ==
    << Cd("neq0", <<"ERROR: ", "Failed to change to planilha_ploidia directory">>),
       Activate("none", <<>>),
       Python("01_create_data_ploidia_table.py", NoArgs, "neq0", "exit1",
              <<"ERROR: ", "Step 1 failed">>),
       Python("02_fill_missing_values.py", NoArgs, "neq0", "exit1",
              <<"ERROR: ", "Step 2 failed">>),
       Python("03_join_image_availability.py", NoArgs, "neq0", "exit1",
              <<"ERROR: ", "Step 3 failed">>),
       End("0", <<"PLOIDIA DATA PIPELINE COMPLETED SUCCESSFULLY!">>) >>

(***************************************************************************)
(* finops\02_create_tables\00_run_complete_finops_pipeline.bat             *)
(***************************************************************************)
Export(table, prefix) ==
    <<"--schema", "gold", "--table", table, "--prefix", prefix>>

Export_py == "finops/02_create_tables/04_export_table_to_csv.py"

CompleteFinopsPipeline ==
    << Cd("none", <<>>),
       Activate("none", <<>>),
       Python("finops/02_create_tables/01_create_all_patient_timeline.py", NoArgs, "neq0", "exit1",
              <<"ERROR: ", "Step 1 failed">>),
       Python("finops/02_create_tables/02_create_clean_timeline.py", NoArgs, "neq0", "exit1",
              <<"ERROR: ", "Step 2 failed">>),
       Python("finops/02_create_tables/03_01_create_finops_summary.py", NoArgs, "neq0", "exit1",
              <<"ERROR: ", "Step 3 failed">>),
       Python("finops/02_create_tables/03_00_create_patient_info.py", NoArgs, "neq0", "exit1",
              <<"ERROR: ", "Step 4 failed">>),
       Python("finops/02_create_tables/03_02_biopsy_pgta_timeline.py", NoArgs, "neq0", "exit1",
              <<"ERROR: ", "Step 5 failed">>),
       Python("finops/02_create_tables/03_03_embryoscope_timeline.py", NoArgs, "neq0", "exit1",
              <<"ERROR: ", "Step 6 failed">>),
       Python("finops/02_create_tables/03_04_a_embryo_freeze_timeline.py", NoArgs, "neq0", "exit1",
              <<"ERROR: ", "Step 7 failed">>),
       Python("finops/02_create_tables/03_04_b_cryopreservation_events_timeline.py", NoArgs, "neq0", "exit1",
              <<"ERROR: ", "Step 8 failed">>),
       Python("finops/02_create_tables/03_05_consultas_timeline.py", NoArgs, "neq0", "exit1",
              <<"ERROR: ", "Step 8.5 failed">>),
       Python(Export_py, Export("patient_info", "03_00_"),
              "neq0", "exit1", <<"ERROR: ", "Step 9 failed">>),
       Python(Export_py,
              Export("resumed_biopsy_pgta_timeline", "03_02_"),
              "neq0", "exit1", <<"ERROR: ", "Step 10 failed">>),
       Python(Export_py,
              Export("resumed_embryoscope_timeline", "03_03_"),
              "neq0", "exit1", <<"ERROR: ", "Step 11 failed">>),
       Python(Export_py, Export("finops_summary", "03_01_"),
              "neq0", "exit1", <<"ERROR: ", "Step 12 failed">>),
       Python(Export_py,
              Export("resumed_cryopreservation_events_timeline", "03_04_b_"),
              "neq0", "exit1", <<"ERROR: ", "Step 13 failed">>),
       Python(Export_py, Export("consultas_timeline", "03_05_"),
              "neq0", "exit1", <<"ERROR: ", "Step 14 failed">>),
       Python(Export_py,
              Export("resumed_consultas_timeline", "03_05_"),
              "neq0", "exit1", <<"ERROR: ", "Step 15 failed">>),
       End("fallthrough", <<"PIPELINE COMPLETED SUCCESSFULLY!">>) >>

(***************************************************************************)
(* The full Clinisys dataflow batch (an unnamed source file): MySQL to     *)
(* bronze, bronze to silver, check tables.  It tests `if errorlevel 1`.    *)
(***************************************************************************)
FullClinisys_ConfigCheck ==
    Probe("python -c yaml.safe_load(open('params.yml'))", "ge1", "goto", "silver_only",
          <<"WARNING: ", "Could not load configuration. Skipping bronze layer creation.">>)

(* Step 1 with exit /b 1 instead of goto :silver_only *)
FullClinisys_Step_1_Stops ==
    PythonAt("", "db_copy_loader.py", NoArgs, "ge1", "exit1", "",
             <<"ERROR: ", "Database copy failed.">>)

FullClinisys_Step_1 ==
    PythonAt("", "db_copy_loader.py", NoArgs, "ge1", "goto", "silver_only",
             <<"WARNING: ", "Database copy failed.">>)

FullClinisys_Step_2 ==
    PythonAt("silver_only", "silver_loader_try_strptime_complete.py", NoArgs,
             "ge1", "exit1", "", <<"ERROR: ", "Silver layer creation failed.">>)

FullClinisys_Step_3 ==
    Python("check_tables.py", NoArgs, "ge1", "warn",
           <<"WARNING: ", "Table validation completed with issues.">>)

FullClinisysDataflow ==
    << Cd("none", <<>>),
       Activate("ge1", <<"ERROR: ", "Failed to activate try_request environment">>),
       Probe("python --version", "ge1", "exit1", "",
             <<"ERROR: ", "Python is not available in try_request environment">>),
       Packages("ge1", <<"ERROR: ", "Failed to install required packages">>),
       FullClinisys_ConfigCheck,
       FullClinisys_Step_1,
       FullClinisys_Step_2,
       FullClinisys_Step_3,
       End("fallthrough", <<"Dataflow complete. Check logs in clinisys\\logs\\">>) >>

(***************************************************************************)
(* The master dataflow (an unnamed source file): RUNNING COMPLETE DATAFLOW *)
(* - ALL SYSTEMS.  Steps 4, 5, 6 are commented out; of steps 9, 10 and 12  *)
(* only the echo of the header is left.                                    *)
(***************************************************************************)
(* Step 1 without the exit /b 1 of its block *)
Master_STEP_1_Warns ==
    [Call("clinisys\\00_run_dataflow_clinisys.bat", <<"1">>,
          <<"WARNING: ", "Step 1 failed">>) EXCEPT !.onfail = "warn"]

Master_STEP_1 ==
    Call("clinisys\\00_run_dataflow_clinisys.bat", <<"1">>,
         <<"ERROR: ", "Step 1 failed">>)

(* Step 2 without the exit /b 1 of its block *)
Master_STEP_2_Warns ==
    [Call("embryoscope\\01_get_embryo_data\\00_run_dataflow_embryoscope.bat", <<"2">>,
          <<"WARNING: ", "Step 2 failed">>) EXCEPT !.onfail = "warn"]

Master_STEP_2 ==
    Call("embryoscope\\01_get_embryo_data\\00_run_dataflow_embryoscope.bat", <<"2">>,
         <<"ERROR: ", "Step 2 failed">>)

Master_STEP_3 ==
    Call("embryoscope\\02_images_availability_report\\00_run_image_availability_pipeline.bat",
         <<"new">>, <<"ERROR: ", "Step 3 failed">>)

(* Step 7 without the exit /b 1 of its block *)
Master_STEP_7_Warns ==
    [Call("data_lake_scripts\\00_run_dataflow_lake_only.bat", <<"7">>,
          <<"WARNING: ", "Step 7 failed">>) EXCEPT !.onfail = "warn"]

Master_STEP_7 ==
    Call("data_lake_scripts\\00_run_dataflow_lake_only.bat", <<"7">>,
         <<"ERROR: ", "Step 7 failed">>)

Master_STEP_8 ==
    Call("planilha_ploidia\\00_run_ploidia_pipeline.bat", <<"8">>,
         <<"ERROR: ", "Step 8 failed">>)

Master_STEP_11 ==
    Python("data_lake_scripts\\cleanup_old_logs.py", NoArgs, "neq0", "warn",
           <<"WARNING: ", "Log cleanup failed (non-critical)">>)

CompleteDataflow ==
    << Cd("none", <<>>),
       Activate("neq0", <<"ERROR: ", "Failed to activate try_request environment">>),
       Probe("python --version", "neq0", "exit1", "",
             <<"ERROR: ", "Python is not available in try_request environment">>),
       Packages("neq0", <<"ERROR: ", "Failed to install required packages">>),
       Master_STEP_1,
       Master_STEP_2,
       Master_STEP_3,
       Master_STEP_7,
       Master_STEP_8,
       Echo(<<"STEP 9: Running Mesclada Pipeline">>),
       Echo(<<"STEP 10: Running Complete FinOps Pipeline">>),
       Master_STEP_11,
       Echo(<<"STEP 12: Running Image Extraction Pipeline">>),
       End("fallthrough",
           <<"COMPLETE DATAFLOW FINISHED SUCCESSFULLY!",
             "All 11 pipeline steps completed without errors.">>) >>

Master == "00_run_dataflow_complete.bat"

FullClinisys == "run_full_dataflow_clinisys.bat"

Finops == "finops\\02_create_tables\\00_run_complete_finops_pipeline.bat"

Consolidation == "00_run_data_lake_consolidation.bat"

Batches ==
    { Master, FullClinisys, Finops, Consolidation,
      Master_STEP_1.cmd, Master_STEP_2.cmd, Master_STEP_3.cmd,
      Master_STEP_7.cmd, Master_STEP_8.cmd }

(* The steps of a batch file. *)
Program(b) ==
    CASE b = Master -> CompleteDataflow
      [] b = FullClinisys -> FullClinisysDataflow
      [] b = Finops -> CompleteFinopsPipeline
      [] b = Consolidation -> DataLakeConsolidation
      [] b = Master_STEP_1.cmd -> ClinisysDataflow
      [] b = Master_STEP_2.cmd -> EmbryoscopeDataflow
      [] b = Master_STEP_3.cmd -> ImageAvailabilityPipeline
      [] b = Master_STEP_7.cmd -> DataflowLakeOnly
      [] b = Master_STEP_8.cmd -> PloidiaPipeline

(***************************************************************************)
(* The state of a run.                                                     *)
(*   stack       the batch files being executed, the caller below the      *)
(*               callee; a frame holds the step it is at, whether it waits *)
(*               for a process ("python") or a called batch ("call"), and  *)
(*               its arguments %1 %2                                       *)
(*   errorlevel  cmd.exe's errorlevel                                      *)
(*   env         the environment variables the batch files set             *)
(*   running     the pipeline scripts that are executing                   *)
(*   trace       every launch of a pipeline script ("python") and every    *)
(*               call of a batch file ("call"), in order, with its exit    *)
(*               code once it has terminated                               *)
(*   output      the messages echoed                                       *)
(*   returns     the exit code of every batch file that has ended          *)
(*   api_results the result directories under api_results\, oldest first   *)
(*   missing     the batch files that do not exist on disk                 *)
(*   installs    the dependency checks made: the exit code of the import   *)
(*               check and, when pip install was run, the exit code of pip *)
(***************************************************************************)
DirName(d) ==
    CASE d.mode = "new" /\ d.run = "earlier" -> "api_results\\new_1"
      [] d.mode = "new" /\ d.run = "current" -> "api_results\\new_2"
      [] d.mode = "retry" /\ d.run = "earlier" -> "api_results\\retry_1"
      [] d.mode = "retry" /\ d.run = "current" -> "api_results\\retry_2"
      [] d.mode = "all" /\ d.run = "earlier" -> "api_results\\all_1"
      [] d.mode = "all" /\ d.run = "current" -> "api_results\\all_2"

EarlierDirs ==
    { <<>>,
      <<[mode |-> "new", run |-> "earlier"]>>,
      <<[mode |-> "retry", run |-> "earlier"]>>,
      <<[mode |-> "all", run |-> "earlier"]>>,
      <<[mode |-> "new", run |-> "earlier"], [mode |-> "retry", run |-> "earlier"]>> }

(* The command lines a run can start with. *)
CommandLines ==
    { <<b, <<>>>> : b \in Batches }
    \cup { <<Master_STEP_3.cmd, <<m>>>> : m \in Modes }
    \cup { <<Master_STEP_3.cmd, <<m, l>>>> : m \in Modes, l \in Limits }

Called == { Master_STEP_1.cmd, Master_STEP_2.cmd, Master_STEP_3.cmd,
            Master_STEP_7.cmd, Master_STEP_8.cmd }

Frame(b, a) == [batch |-> b, pc |-> 1, wait |-> "none", args |-> a]

(***************************************************************************)
(* The hash-based bronze loader (finops 01_load_to_bronze.py), as its      *)
(* README describes it: every row of a source file gets the columns hash,  *)
(* extraction_timestamp and file_name; the hash is the MD5 of the data     *)
(* columns, the metadata excluded; only rows whose hash is new are         *)
(* inserted.                                                               *)
(***************************************************************************)
MaxRows == 2

MaxLoads == 3

(* The data columns of a row of the sheet, as one value. *)
DataValues == {"a", "b"}

FileNames == {"0401_FAT-xBH_2024", "0401_FAT-xBH_2025"}

(* The source files: up to MaxRows rows, the same row possibly twice. *)
SourceRows == UNION { [1..n -> DataValues] : n \in 0..MaxRows }

(* MD5 of the data columns (the digests, shortened). *)
Md5(data) ==
    CASE data = "a" -> "0cc175b9"
      [] data = "b" -> "92eb5ffe"
      [] OTHER -> "d41d8cd9"

(* hash: MD5 of the row's data columns (excluding metadata).  First the    *)
(* hash taken over every column, the metadata included.                    *)
RowHash_WithMetadata(data, file_name, extraction_timestamp) ==
    <<Md5(data), file_name, extraction_timestamp>>

RowHash(data, file_name, extraction_timestamp) == <<Md5(data)>>

BronzeRow(data, file_name, extraction_timestamp) ==
    [data |-> data,
     hash |-> RowHash(data, file_name, extraction_timestamp),
     extraction_timestamp |-> extraction_timestamp,
     file_name |-> file_name]

Hashes(table) == { table[i].hash : i \in 1..Len(table) }

(* Only new rows (based on hash) are inserted, in the order of the file. *)
RECURSIVE InsertNew(_, _, _, _)
InsertNew(table, rows, file_name, extraction_timestamp) ==
    IF rows = <<>> THEN table
    ELSE LET row == BronzeRow(Head(rows), file_name, extraction_timestamp)
         IN  InsertNew(IF row.hash \in Hashes(table) THEN table
                       ELSE Append(table, row),
                       Tail(rows), file_name, extraction_timestamp)

(* No load has been made. *)
NoLoad == bronze_table = <<>> /\ loads = <<>>

(***************************************************************************)
(* The data of the image availability pipeline, as its README describes    *)
(* it: API -> Logs (JSON) -> Bronze -> Silver -> Gold.                     *)
(*   results       the checks in every directory of api_results (the same  *)
(*                 positions as api_results)                               *)
(*   bronze_logs   bronze.embryo_image_availability_logs                   *)
(*   silver_latest silver.embryo_image_availability_latest                 *)
(*   gold_changes  gold.embryo_image_status_changes                        *)
(***************************************************************************)
EmbryoOrder == <<"E1", "E2">>

Embryos == { EmbryoOrder[i] : i \in 1..Len(EmbryoOrder) }

Statuses == {"success", "error"}

(* When a run made its checks: an earlier run before the current one. *)
CheckedAt(run) == IF run = "earlier" THEN 1 ELSE 2

(* The checks of the embryos in order, an embryo with "unchecked" left out *)
RECURSIVE CheckRows(_, _, _)
CheckRows(order, status, run) ==
    IF order = <<>> THEN <<>>
    ELSE (IF status[Head(order)] = "unchecked" THEN <<>>
          ELSE <<[embryo |-> Head(order), status |-> status[Head(order)],
                  checked_at |-> CheckedAt(run)]>>)
         \o CheckRows(Tail(order), status, run)

(* What one run of 01_check_image_availability.py can write into its       *)
(* results directory: a check of at least one embryo.                      *)
Checks(run) ==
    { CheckRows(EmbryoOrder, status, run) :
        status \in [Embryos -> Statuses \cup {"unchecked"}] } \ {<<>>}

(* An earlier run that got an error for every embryo. *)
EarlierErrors == CheckRows(EmbryoOrder, [e \in Embryos |-> "error"], "earlier")

(* The checks in the directory --input-dir names. *)
DirContent(dir) ==
    LET named == { i \in 1..Len(api_results) : DirName(api_results[i]) = dir }
    IN  IF named = {} THEN <<>> ELSE results[CHOOSE i \in named : TRUE]

(* 02_logs_to_bronze.py: the checks are appended to the log.  First an    *)
(* ingestion that replaces the table by the checks of the directory.       *)
LogsToBronze_Overwrite(logs, checks) == checks

LogsToBronze(logs, checks) == logs \o checks

CheckedEmbryos(logs) == { logs[i].embryo : i \in 1..Len(logs) }

(* The most recent check of embryo e in the logs. *)
LatestCheck(logs, e) ==
    logs[CHOOSE i \in 1..Len(logs) :
            /\ logs[i].embryo = e
            /\ \A j \in 1..Len(logs) :
                  logs[j].embryo = e => logs[j].checked_at <= logs[i].checked_at]

(* 03_bronze_to_silver.py: latest status per embryo (deduplicated) *)
RECURSIVE BronzeToSilver(_, _)
BronzeToSilver(logs, order) ==
    IF order = <<>> THEN <<>>
    ELSE (IF Head(order) \in CheckedEmbryos(logs)
          THEN <<LatestCheck(logs, Head(order))>> ELSE <<>>)
         \o BronzeToSilver(logs, Tail(order))

(* The status gold has recorded last for embryo e, "none" if it has none. *)
RecordedStatus(changes, e) ==
    LET of_e == { i \in 1..Len(changes) : changes[i].embryo = e }
    IN  IF of_e = {} THEN "none"
        ELSE changes[CHOOSE i \in of_e : \A j \in of_e : j <= i].new_status

(* 04_track_changes_to_gold.py: one entry for every embryo of silver whose  *)
(* status is not the one gold recorded last.                               *)
RECURSIVE TrackChanges(_, _)
TrackChanges(changes, latest) ==
    IF latest = <<>> THEN changes
    ELSE LET row == Head(latest)
             old == RecordedStatus(changes, row.embryo)
         IN  TrackChanges(IF row.status = old THEN changes
                          ELSE Append(changes,
                                      [embryo |-> row.embryo, old_status |-> old,
                                       new_status |-> row.status,
                                       changed_at |-> row.checked_at]),
                          Tail(latest))

(* The image availability check is not running. *)
NoCheck ==
    /\ pending = <<>> /\ attempt = 0 /\ token_valid = TRUE
    /\ checked = <<>> /\ api_calls = <<>>

Init ==
    /\ \E c \in CommandLines : stack = <<Frame(c[1], c[2])>>
    /\ errorlevel = 0
    /\ env = [PARENT_STEP |-> "", MODE |-> "", LIMIT |-> "", RESULTS_DIR |-> "",
              bronze_success |-> "", silver_success |-> ""]
    /\ running = {}
    /\ trace = <<>>
    /\ output = <<>>
    /\ returns = <<>>
    /\ api_results \in EarlierDirs
    /\ missing \in {{}} \cup { {b} : b \in Called }
    /\ installs = <<>>
    /\ results = [i \in 1..Len(api_results) |-> EarlierErrors]
    /\ bronze_logs = <<>>
    /\ silver_latest = <<>>
    /\ gold_changes = <<>>
    /\ NoLoad
    /\ NoCheck

Top == stack[Len(stack)]

Cur == Program(Top.batch)[Top.pc]

At(kind) == stack # <<>> /\ Cur.kind = kind

(* %1, %2 of the batch file being executed *)
Arg(n) == IF Len(Top.args) >= n THEN Top.args[n] ELSE ""

(* Percent expansion of a line of the batch file. *)
Expand(text) ==
    [i \in 1..Len(text) |->
        CASE text[i] = "%PARENT_STEP%" -> env.PARENT_STEP
          [] text[i] = "%MODE%" -> env.MODE
          [] text[i] = "%LIMIT%" -> env.LIMIT
          [] text[i] = "%RESULTS_DIR%" -> env.RESULTS_DIR
          [] OTHER -> text[i]]

(* if %errorlevel% neq 0 / if errorlevel 1 *)
Failed(test, e) ==
    CASE test = "neq0" -> e # 0
      [] test = "ge1" -> e >= 1
      [] OTHER -> FALSE

LabelPc(b, l) == CHOOSE i \in 1..Len(Program(b)) : Program(b)[i].label = l

Say(text) == Append(output, [batch |-> Top.batch, text |-> Expand(text)])

(* The batch file goes on with its next step. *)
Continue ==
    stack' = [stack EXCEPT ![Len(stack)] = [@ EXCEPT !.pc = @ + 1, !.wait = "none"]]

Goto(l) ==
    stack' = [stack EXCEPT ![Len(stack)] =
                 [@ EXCEPT !.pc = LabelPc(Top.batch, l), !.wait = "none"]]

(* exit /b code *)
ExitB(code) ==
    /\ stack' = SubSeq(stack, 1, Len(stack) - 1)
    /\ errorlevel' = code
    /\ returns' = Append(returns, [batch |-> Top.batch, code |-> code])

(* The block that follows a command which ended with exit code e. *)
IfErrorlevel(step, e) ==
    IF Failed(step.test, e)
    THEN /\ output' = Say(step.text)
         /\ CASE step.onfail = "exit1" -> ExitB(1)
              [] step.onfail = "warn" ->
                    Continue /\ errorlevel' = e /\ UNCHANGED returns
              [] step.onfail = "goto" ->
                    Goto(step.target) /\ errorlevel' = e /\ UNCHANGED returns
    ELSE /\ Continue
         /\ errorlevel' = e
         /\ UNCHANGED <<output, returns>>

(* set PARENT_STEP=%1 / if "%PARENT_STEP%"=="" set PARENT_STEP=n, and in    *)
(* the image availability pipeline set MODE=%1 / set LIMIT=%2 /            *)
(* if "%MODE%"=="" set MODE=retry                                          *)
SetVariables ==
    /\ At("setargs")
    /\ env' = IF Cur.cmd = "MODE"
              THEN [env EXCEPT !.MODE = IF Arg(1) = "" THEN Cur.text[1] ELSE Arg(1),
                               !.LIMIT = Arg(2)]
              ELSE [env EXCEPT !.PARENT_STEP =
                                   IF Arg(1) = "" THEN Cur.text[1] ELSE Arg(1)]
    /\ Continue
    /\ UNCHANGED <<errorlevel, running, trace, output, returns, api_results, missing>>
    /\ UNCHANGED <<lake, loader, checker>>
    /\ UNCHANGED installs

(* cd /d "%~dp0" and the test that follows it *)
ChangeDir ==
    /\ At("cd")
    /\ \E e \in {0, 1} : IfErrorlevel(Cur, e)
    /\ UNCHANGED <<env, running, trace, api_results, missing>>
    /\ UNCHANGED <<lake, loader, checker>>
    /\ UNCHANGED installs

(* call conda activate try_request and the test that follows it *)
CondaActivate ==
    /\ At("activate")
    /\ \E e \in {0, 1} : IfErrorlevel(Cur, e)
    /\ UNCHANGED <<env, running, trace, api_results, missing>>
    /\ UNCHANGED <<lake, loader, checker>>
    /\ UNCHANGED installs

(* python --version, python -c "..." : a command that is no pipeline       *)
(* script, and the test that follows it                                    *)
ProbeCmd ==
    /\ At("probe")
    /\ \E e \in ExitCodes : IfErrorlevel(Cur, e)
    /\ UNCHANGED <<env, running, trace, api_results, missing>>
    /\ UNCHANGED <<lake, loader, checker>>
    /\ UNCHANGED installs

(* The dependency check of the running batch file: the exit code of the    *)
(* import check and of pip install (<<>> when pip was not run).            *)
Checked(imp, pip) == [batch |-> Top.batch, import |-> imp, pip |-> pip]

(* The exit code the test nested in the block of the import check sees.    *)
NestedErrorlevel(test, imp, pip) == IF test = "neq0" THEN imp ELSE pip

(* python -c "import ..." ; if it failed: pip install, and the nested test *)
(* of pip's exit code.  In `if %errorlevel% neq 0 ( ... if %errorlevel%    *)
(* neq 0 ( ...` cmd.exe expands both %errorlevel% when it reads the outer  *)
(* block, so the nested test sees the exit code of the import check;       *)
(* `if errorlevel 1` is evaluated when it runs and sees pip's exit code.   *)
InstallPackages ==
    /\ At("packages")
    /\ \E imp \in ExitCodes :
          IF Failed(Cur.test, imp)
          THEN \E pip \in ExitCodes :
                  /\ installs' = Append(installs, Checked(imp, <<pip>>))
                  /\ IF Failed(Cur.test, NestedErrorlevel(Cur.test, imp, pip))
                     THEN output' = Say(Cur.text) /\ ExitB(1)
                     ELSE /\ Continue /\ errorlevel' = pip
                          /\ UNCHANGED <<output, returns>>
          ELSE /\ installs' = Append(installs, Checked(imp, <<>>))
               /\ Continue /\ errorlevel' = imp /\ UNCHANGED <<output, returns>>
    /\ UNCHANGED <<env, running, trace, api_results, missing>>
    /\ UNCHANGED <<lake, loader, checker>>

(* The arguments of a python step. *)
(* The arguments without the test of %LIMIT% *)
PythonArgs_AlwaysLimit(step) ==
    Expand(step.args) \o Expand(step.optargs)

PythonArgs(step) ==
    Expand(step.args)
    \o (IF step.optargs # <<>> /\ env.LIMIT # "" THEN Expand(step.optargs) ELSE <<>>)

(* cmd.exe reaches a python step only when no command of the batch is      *)
(* running: it waits for the process it launched.                          *)
(* A launch that does not wait (start python ...) *)
Idle_NoWait(f) == TRUE

Idle(f) == f.wait = "none"

(* python <script> <args> : the process is started and cmd.exe waits *)
LaunchPython ==
    /\ At("python")
    /\ Idle(Top)
    /\ running' = running \cup {[batch |-> Top.batch, script |-> Cur.cmd]}
    /\ trace' = Append(trace, [kind |-> "python", batch |-> Top.batch,
                               script |-> Cur.cmd, args |-> PythonArgs(Cur),
                               done |-> FALSE, exit |-> 0])
    /\ stack' = [stack EXCEPT ![Len(stack)] = [@ EXCEPT !.wait = "python"]]
    /\ UNCHANGED <<errorlevel, env, output, returns, api_results, missing>>
    /\ UNCHANGED <<lake, loader, checker>>
    /\ UNCHANGED installs

(* The variable the else branch of the test sets (set "bronze_success=true") *)
ElseSet(step) ==
    CASE step.cmd = "db_copy_loader.py" -> "bronze_success"
      [] step.cmd = "silver_loader_try_strptime_complete.py" -> "silver_success"
      [] OTHER -> ""

(* What the scripts of the image availability pipeline do to the data.     *)
(* 01_check_image_availability.py writes a results directory when it has   *)
(* checked an embryo; 02_logs_to_bronze.py appends the checks of its       *)
(* --input-dir to bronze; 03_bronze_to_silver.py rebuilds silver from      *)
(* bronze; 04_track_changes_to_gold.py appends the status changes to gold. *)
(* A script that exits non-zero may have stopped before or after its       *)
(* write.                                                                  *)
ScriptEffect(batch, script, args, e) ==
    IF batch # Master_STEP_3.cmd
    THEN UNCHANGED <<api_results, lake>>
    ELSE CASE script = ImageAvailability_STEP_1.cmd ->
                /\ \E written \in {<<>>} \cup Checks("current") :
                      IF written = <<>>
                      THEN UNCHANGED <<api_results, results>>
                      ELSE /\ api_results' = Append(api_results,
                                                    [mode |-> env.MODE, run |-> "current"])
                           /\ results' = Append(results, written)
                /\ UNCHANGED <<bronze_logs, silver_latest, gold_changes>>
           [] script = ImageAvailability_STEP_2.cmd ->
                /\ \E n \in IF e = 0 THEN {Len(DirContent(args[2]))}
                                       ELSE {0, Len(DirContent(args[2]))} :
                      bronze_logs' = LogsToBronze(bronze_logs,
                                                  SubSeq(DirContent(args[2]), 1, n))
                /\ UNCHANGED <<api_results, results, silver_latest, gold_changes>>
           [] script = ImageAvailability_STEP_3.cmd ->
                /\ silver_latest' \in
                      IF e = 0 THEN {BronzeToSilver(bronze_logs, EmbryoOrder)}
                      ELSE {silver_latest, BronzeToSilver(bronze_logs, EmbryoOrder)}
                /\ UNCHANGED <<api_results, results, bronze_logs, gold_changes>>
           [] script = ImageAvailability_STEP_4.cmd ->
                /\ gold_changes' \in
                      IF e = 0 THEN {TrackChanges(gold_changes, silver_latest)}
                      ELSE {gold_changes, TrackChanges(gold_changes, silver_latest)}
                /\ UNCHANGED <<api_results, results, bronze_logs, silver_latest>>
           [] OTHER -> UNCHANGED <<api_results, lake>>

(* The script terminates with exit code e; the test that follows it. *)
PythonExit ==
    /\ At("python")
    /\ Top.wait = "python"
    /\ \E e \in ExitCodes :
          /\ trace' = [trace EXCEPT ![Len(trace)] = [@ EXCEPT !.done = TRUE, !.exit = e]]
          /\ env' = IF ElseSet(Cur) = "bronze_success"
                    THEN [env EXCEPT !.bronze_success =
                              IF Failed(Cur.test, e) THEN "false" ELSE "true"]
                    ELSE IF ElseSet(Cur) = "silver_success" /\ ~Failed(Cur.test, e)
                    THEN [env EXCEPT !.silver_success = "true"]
                    ELSE env
          /\ IfErrorlevel(Cur, e)
          /\ ScriptEffect(Top.batch, Cur.cmd, trace[Len(trace)].args, e)
    /\ running' = running \ {[batch |-> Top.batch, script |-> Cur.cmd]}
    /\ UNCHANGED missing
    /\ UNCHANGED <<loader, checker>>
    /\ UNCHANGED installs

(* for /f %%i in ('dir /b /ad /o-d api_results\%MODE%_*') do ( set         *)
(* RESULTS_DIR=api_results\%%i & goto :found_dir ) ; otherwise exit /b 0.  *)
(* First the search without the exit /b 0: the batch goes on to step 2.    *)
FindResultsDir_NoExit ==
    /\ At("finddir")
    /\ LET matching == { i \in 1..Len(api_results) : api_results[i].mode = env.MODE }
       IN  IF matching # {}
           THEN /\ env' = [env EXCEPT !.RESULTS_DIR =
                              DirName(api_results[CHOOSE i \in matching :
                                                     \A j \in matching : j <= i])]
                /\ Goto(Cur.target)
                /\ UNCHANGED <<errorlevel, output, returns>>
           ELSE /\ output' = Say(Cur.text)
                /\ Continue
                /\ UNCHANGED <<errorlevel, returns, env>>
    /\ UNCHANGED <<running, trace, api_results, missing>>
    /\ UNCHANGED <<lake, loader, checker>>
    /\ UNCHANGED installs

FindResultsDir ==
    /\ At("finddir")
    /\ LET matching == { i \in 1..Len(api_results) : api_results[i].mode = env.MODE }
       IN  IF matching # {}
           THEN /\ env' = [env EXCEPT !.RESULTS_DIR =
                              DirName(api_results[CHOOSE i \in matching :
                                                     \A j \in matching : j <= i])]
                /\ Goto(Cur.target)
                /\ UNCHANGED <<errorlevel, output, returns>>
           ELSE /\ output' = Say(Cur.text)
                /\ ExitB(0)
                /\ UNCHANGED env
    /\ UNCHANGED <<running, trace, api_results, missing>>
    /\ UNCHANGED <<lake, loader, checker>>
    /\ UNCHANGED installs

(* if not exist "<batch>" ( ... exit /b 1 ) ; call "<batch>" <args> *)
CallBatch ==
    /\ At("call")
    /\ Idle(Top)
    /\ IF Cur.cmd \in missing
       THEN /\ output' = Say(<<"ERROR: ", "Cannot find ", Cur.cmd>>)
            /\ ExitB(1)
            /\ UNCHANGED trace
       ELSE /\ stack' = Append([stack EXCEPT ![Len(stack)] = [@ EXCEPT !.wait = "call"]],
                               Frame(Cur.cmd, Cur.args))
            /\ trace' = Append(trace, [kind |-> "call", batch |-> Top.batch,
                                       script |-> Cur.cmd, args |-> Cur.args,
                                       done |-> FALSE, exit |-> 0])
            /\ UNCHANGED <<errorlevel, output, returns>>
    /\ UNCHANGED <<env, running, api_results, missing>>
    /\ UNCHANGED <<lake, loader, checker>>
    /\ UNCHANGED installs

(* The called batch has returned: if %errorlevel% neq 0 ( ... exit /b 1 ), *)
(* cd /d "%PROJECT_ROOT%"                                                  *)
AfterCall ==
    /\ At("call")
    /\ Top.wait = "call"
    /\ IfErrorlevel(Cur, errorlevel)
    /\ LET c == CHOOSE i \in 1..Len(trace) :
                    /\ trace[i].kind = "call" /\ ~trace[i].done
                    /\ trace[i].batch = Top.batch
       IN  trace' = [trace EXCEPT ![c] = [@ EXCEPT !.done = TRUE, !.exit = errorlevel]]
    /\ UNCHANGED <<env, running, api_results, missing>>
    /\ UNCHANGED <<lake, loader, checker>>
    /\ UNCHANGED installs

(* echo of a step header whose body is commented out *)
EchoHeader ==
    /\ At("echo")
    /\ output' = Say(Cur.text)
    /\ Continue
    /\ UNCHANGED <<errorlevel, env, running, trace, returns, api_results, missing>>
    /\ UNCHANGED <<lake, loader, checker>>
    /\ UNCHANGED installs

(* The success message and exit /b 0, or the end of the file, which leaves *)
(* the errorlevel as it is.                                                *)
EndBatch ==
    /\ At("end")
    /\ output' = Say(Cur.text)
    /\ ExitB(IF Cur.onfail = "0" THEN 0 ELSE errorlevel)
    /\ UNCHANGED <<env, running, trace, api_results, missing>>
    /\ UNCHANGED <<lake, loader, checker>>
    /\ UNCHANGED installs

Next ==
    \/ SetVariables
    \/ ChangeDir
    \/ CondaActivate
    \/ ProbeCmd
    \/ InstallPackages
    \/ LaunchPython
    \/ PythonExit
    \/ FindResultsDir
    \/ CallBatch
    \/ AfterCall
    \/ EchoHeader
    \/ EndBatch

Spec == Init /\ [][Next]_vars

TypeOK ==
    /\ errorlevel \in ExitCodes
    /\ Len(stack) <= 2
    /\ Cardinality(running) <= 1

(***************************************************************************)
(* Vocabulary of the properties.                                           *)
(***************************************************************************)
Indices == 1..Len(trace)

IsScript(i) == trace[i].kind = "python"

Clinisys == Master_STEP_1.cmd

Embryoscope == Master_STEP_2.cmd

ImageAvailability == Master_STEP_3.cmd

LakeOnly == Master_STEP_7.cmd

Ploidia == Master_STEP_8.cmd

(* The batch file b has ended with exit code c. *)
Returned(b, c) == \E r \in 1..Len(returns) : returns[r] = [batch |-> b, code |-> c]

(* The batch file b has echoed a message that starts with the word w. *)
Said(b, w) == \E m \in 1..Len(output) : output[m].batch = b /\ output[m].text[1] = w

(* The run was started as a run of the master dataflow. *)
MasterRun ==
    \/ stack # <<>> /\ stack[1].batch = Master
    \/ stack = <<>> /\ returns # <<>> /\ returns[Len(returns)].batch = Master

Finished == stack = <<>>

(* The batch files that test a script with `if %errorlevel% neq 0`. *)
Neq0Batches ==
    { Master, Clinisys, Embryoscope, ImageAvailability, LakeOnly, Ploidia,
      Finops, Consolidation }

(* The steps whose failure a batch file only warns about. *)
NonCritical ==
    { <<Clinisys, "02_02_compare_bronze_and_silver.py">>,
      <<ImageAvailability, "05_cleanup_logs.py">>,
      <<Master, "data_lake_scripts\\cleanup_old_logs.py">>,
      <<FullClinisys, "db_copy_loader.py">>,
      <<FullClinisys, "check_tables.py">> }

(* The script launched as trace[i] made its batch print an error and exit  *)
(* with code 1 before any later step of the batch was started.             *)
StoppedBatch(i) ==
    /\ Returned(trace[i].batch, 1)
    /\ Said(trace[i].batch, "ERROR: ")
    /\ \A j \in Indices : j > i => trace[j].batch # trace[i].batch

(* C1 as stated: in every batch file, a script that returns a non-zero     *)
(* exit code makes the batch print an error and exit without starting any  *)
(* later step of that batch.                                               *)
C1_AnyFailureStops ==
    \A i \in Indices :
        IsScript(i) /\ trace[i].done /\ trace[i].exit # 0 => StoppedBatch(i)

(* C1 amended: in the batch files that test `if %errorlevel% neq 0`, a     *)
(* script that returns a non-zero exit code makes the batch print an error *)
(* and exit with code 1 without starting any later step, except the steps  *)
(* marked non-critical (the bronze/silver comparison, the two cleanups),   *)
(* after which the batch prints a warning and goes on; the full Clinisys   *)
(* dataflow, which tests `if errorlevel 1`, stops only when the silver     *)
(* loader returns 1 or more, and only warns when the database copy or the  *)
(* table check does.                                                       *)
C1_CriticalFailureStops ==
    \A i \in Indices :
        IsScript(i) /\ trace[i].done =>
            LET b == trace[i].batch
                e == trace[i].exit
                failed == IF b \in Neq0Batches THEN e # 0 ELSE e >= 1
            IN  /\ failed /\ <<b, trace[i].script>> \notin NonCritical
                      => StoppedBatch(i)
                /\ failed /\ <<b, trace[i].script>> \in NonCritical
                      => /\ Said(b, "WARNING: ")
                         /\ Said(b, "ERROR: ") =>
                               \E j \in Indices : j > i /\ trace[j].batch = b
                /\ ~failed /\ Said(b, "ERROR: ")
                      => \E j \in Indices : j > i /\ trace[j].batch = b

(* A critical script has failed and stopped its batch, after a failed      *)
(* non-critical script had let it go on.                                   *)
C1_Witness ==
    \E i, j \in Indices :
        /\ i < j /\ trace[i].batch = trace[j].batch
        /\ IsScript(i) /\ trace[i].done /\ trace[i].exit # 0
        /\ IsScript(j) /\ trace[j].done /\ trace[j].exit # 0
        /\ <<trace[i].batch, trace[i].script>> \in NonCritical
        /\ <<trace[j].batch, trace[j].script>> \notin NonCritical
        /\ StoppedBatch(j)

(* The commands the master dataflow itself has started, in order. *)
MasterTrace == SelectSeq(trace, LAMBDA t : t.batch = Master)

MasterOrder ==
    << Clinisys, Embryoscope, ImageAvailability, LakeOnly, Ploidia,
       "data_lake_scripts\\cleanup_old_logs.py" >>

(* C2: in a run of the master dataflow the sub-pipelines are started in    *)
(* the order Clinisys, Embryoscope, Image Availability (mode new), Data    *)
(* Lake Consolidation, Ploidia, log cleanup; none is started twice, and    *)
(* each only after every earlier one has returned exit code 0.             *)
C2_MasterOrder ==
    MasterRun =>
        LET m == MasterTrace
        IN  /\ Len(m) <= Len(MasterOrder)
            /\ \A k \in 1..Len(m) :
                  /\ m[k].script = MasterOrder[k]
                  /\ k = 3 => m[k].args = <<"new">>
                  /\ \A h \in 1..(k - 1) :
                        /\ m[h].done /\ m[h].exit = 0
                        /\ Returned(m[h].script, 0)
                        /\ ~Returned(m[h].script, 1)

(* The master has started all six, the log cleanup last. *)
C2_Witness ==
    /\ MasterRun
    /\ Len(MasterTrace) = Len(MasterOrder)
    /\ running = {[batch |-> Master, script |-> MasterOrder[6]]}

(* C3: in a run of the master dataflow, when a script that a sub-pipeline  *)
(* treats as an error exits non-zero, the sub-pipeline returns a non-zero  *)
(* exit code to the master, the master exits with code 1, and no script of *)
(* a later sub-pipeline is started.                                        *)
C3_FailurePropagates ==
    MasterRun =>
        \A i \in Indices :
            /\ IsScript(i) /\ trace[i].done /\ trace[i].exit # 0
            /\ trace[i].batch \in Called
            /\ <<trace[i].batch, trace[i].script>> \notin NonCritical
            => /\ Returned(trace[i].batch, 1)
               /\ i = Len(trace)
               /\ running = {}
               /\ IF Finished
                  THEN Returned(Master, 1) /\ ~Returned(Master, 0)
                  ELSE /\ Len(stack) = 1 /\ Top.batch = Master /\ Top.wait = "call"
                       /\ errorlevel = 1

(* The master has exited with code 1 because a script of the data lake     *)
(* consolidation failed.                                                   *)
C3_Witness ==
    /\ MasterRun /\ Finished /\ Returned(Master, 1)
    /\ trace # <<>>
    /\ trace[Len(trace)].batch = LakeOnly
    /\ trace[Len(trace)].exit # 0

Bronze == "01_source_to_bronze.py"

Silver == "02_01_bronze_to_silver.py"

Gold(b) == IF b = Clinisys THEN "03_silver_to_gold.py" ELSE "03_consolidated_to_gold.py"

(* The script s of batch b has run and exited 0 before trace[i] was started. *)
RanBefore(b, s, i) ==
    \E h \in 1..(i - 1) :
        /\ trace[h].batch = b /\ trace[h].script = s
        /\ trace[h].done /\ trace[h].exit = 0

(* C4: in the Clinisys dataflow and in the Embryoscope dataflow the gold    *)
(* script is started only if, in the same run, the source-to-bronze script *)
(* and then the bronze-to-silver script have each run and exited 0.        *)
C4_BronzeSilverGold ==
    \A g \in Indices :
        trace[g].batch \in {Clinisys, Embryoscope}
        /\ trace[g].script = Gold(trace[g].batch)
        => \E b, s \in 1..(g - 1) :
              /\ b < s
              /\ trace[b].batch = trace[g].batch /\ trace[b].script = Bronze
              /\ trace[b].done /\ trace[b].exit = 0
              /\ trace[s].batch = trace[g].batch /\ trace[s].script = Silver
              /\ trace[s].done /\ trace[s].exit = 0

(* The gold script of the Embryoscope dataflow is running. *)
C4_Witness ==
    running = {[batch |-> Embryoscope, script |-> Gold(Embryoscope)]}

(* C5: in a master run 01_merge_clinisys_embryoscope.py is started only    *)
(* after the Clinisys 03_silver_to_gold.py and the Embryoscope             *)
(* 03_consolidated_to_gold.py have run and exited 0 earlier in the run.    *)
C5_MergeAfterGold ==
    MasterRun =>
        \A m \in Indices :
            trace[m].script = LakeOnly_STEP_1.cmd
            => /\ RanBefore(Clinisys, Gold(Clinisys), m)
               /\ RanBefore(Embryoscope, Gold(Embryoscope), m)

(* The merge script is running in a master run. *)
C5_Witness ==
    /\ MasterRun
    /\ running = {[batch |-> LakeOnly, script |-> LakeOnly_STEP_1.cmd]}

(* The number of pipeline steps the completion message of the master names *)
PipelineSteps == 11

(* C6: the master dataflow prints COMPLETE DATAFLOW FINISHED SUCCESSFULLY  *)
(* with All 11 pipeline steps completed without errors only after 11       *)
(* pipeline steps have each been executed and have each exited 0.          *)
C6_ElevenStepsCompleted ==
    Said(Master, "COMPLETE DATAFLOW FINISHED SUCCESSFULLY!") =>
        /\ Len(MasterTrace) = PipelineSteps
        /\ \A k \in 1..Len(MasterTrace) :
              MasterTrace[k].done /\ MasterTrace[k].exit = 0

(* The numeric prefix of the file name of a script; a letter a, b counts   *)
(* as 1, 2; a script without a number has no prefix.                       *)
Prefix(script) ==
    CASE script \in { "01_source_to_bronze.py", "01_check_image_availability.py",
                      "01_merge_clinisys_embryoscope.py",
                      "01_create_data_ploidia_table.py",
                      "finops/02_create_tables/01_create_all_patient_timeline.py" }
            -> <<1, 0, 0>>
      [] script \in { "02_logs_to_bronze.py", "02_combine_redlara_planilha.py",
                      "02_fill_missing_values.py",
                      "finops/02_create_tables/02_create_clean_timeline.py" }
            -> <<2, 0, 0>>
      [] script = "02_01_bronze_to_silver.py" -> <<2, 1, 0>>
      [] script \in { "02_02_compare_bronze_and_silver.py",
                      "02_02_cleanup_silver_layer.py" } -> <<2, 2, 0>>
      [] script = "02_03_consolidate_embryoscope_dbs.py" -> <<2, 3, 0>>
      [] script \in { "03_silver_to_gold.py", "03_consolidated_to_gold.py",
                      "03_bronze_to_silver.py", "03_combine_embryoscope_planilha.py",
                      "03_join_image_availability.py",
                      "finops/02_create_tables/03_00_create_patient_info.py" }
            -> <<3, 0, 0>>
      [] script = "finops/02_create_tables/03_01_create_finops_summary.py" -> <<3, 1, 0>>
      [] script = "finops/02_create_tables/03_02_biopsy_pgta_timeline.py" -> <<3, 2, 0>>
      [] script = "finops/02_create_tables/03_03_embryoscope_timeline.py" -> <<3, 3, 0>>
      [] script = "finops/02_create_tables/03_04_a_embryo_freeze_timeline.py"
            -> <<3, 4, 1>>
      [] script = "finops/02_create_tables/03_04_b_cryopreservation_events_timeline.py"
            -> <<3, 4, 2>>
      [] script = "finops/02_create_tables/03_05_consultas_timeline.py" -> <<3, 5, 0>>
      [] script = "04_track_changes_to_gold.py" -> <<4, 0, 0>>
      [] script = Export_py -> <<4, 0, 0>>
      [] script = "05_cleanup_logs.py" -> <<5, 0, 0>>
      [] OTHER -> <<>>

Before(p, q) ==
    \/ p[1] < q[1]
    \/ p[1] = q[1] /\ p[2] < q[2]
    \/ p[1] = q[1] /\ p[2] = q[2] /\ p[3] < q[3]

(* Two launches of numbered scripts by the same batch file, i before j *)
SameBatchPairs ==
    { <<i, j>> \in Indices \X Indices :
        /\ i < j /\ IsScript(i) /\ IsScript(j)
        /\ trace[i].batch = trace[j].batch
        /\ Prefix(trace[i].script) # <<>> /\ Prefix(trace[j].script) # <<>> }

(* C7 as stated: every pipeline batch invokes its numbered scripts in      *)
(* ascending order of their numeric filename prefix, each script at most   *)
(* once per run and with no retry of a failed script.                      *)
C7_AscendingPrefix ==
    \A ij \in SameBatchPairs :
        Before(Prefix(trace[ij[1]].script), Prefix(trace[ij[2]].script))

(* C7 amended: every pipeline batch invokes its scripts in the fixed order *)
(* of its step blocks, each invocation (script and arguments) at most once *)
(* per run and never again after it has failed; the order is ascending in  *)
(* the numeric filename prefix except in the FinOps pipeline, which runs   *)
(* 03_01_create_finops_summary.py before 03_00_create_patient_info.py and  *)
(* invokes 04_export_table_to_csv.py once for every exported table.        *)
C7_FixedOrder ==
    \A ij \in SameBatchPairs :
        LET a == trace[ij[1]]
            b == trace[ij[2]]
        IN  /\ <<a.script, a.args>> # <<b.script, b.args>>
            /\ a.script = b.script => a.done /\ a.exit = 0 /\ a.script = Export_py
            /\ \/ Before(Prefix(a.script), Prefix(b.script))
               \/ /\ a.batch = Finops
                  /\ \/ /\ a.script = "finops/02_create_tables/03_01_create_finops_summary.py"
                        /\ b.script = "finops/02_create_tables/03_00_create_patient_info.py"
                     \/ a.script = Export_py /\ b.script = Export_py

(* The FinOps pipeline has run all its sixteen steps. *)
C7_Witness ==
    /\ Finished /\ Returned(Finops, 0)
    /\ \E ij \in SameBatchPairs :
          /\ trace[ij[1]].script = "finops/02_create_tables/03_01_create_finops_summary.py"
          /\ trace[ij[2]].script = "finops/02_create_tables/03_00_create_patient_info.py"
    /\ \E ij \in SameBatchPairs :
          trace[ij[1]].script = Export_py /\ trace[ij[2]].script = Export_py

(* C8: within one run of the master dataflow at most one pipeline script   *)
(* is executing at any instant: each script is launched only after the     *)
(* previous one has terminated.                                            *)
C8_OneScriptAtATime ==
    MasterRun =>
        /\ Cardinality(running) <= 1
        /\ \A i, j \in Indices :
              i < j /\ IsScript(i) /\ IsScript(j) => trace[i].done
        /\ \A i \in Indices :
              IsScript(i) /\ ~trace[i].done
              => running = {[batch |-> trace[i].batch, script |-> trace[i].script]}
        /\ running # {} => \E i \in Indices : IsScript(i) /\ ~trace[i].done

(* A script of the third sub-pipeline is executing in a master run, after  *)
(* the scripts of the first two have terminated.                           *)
C8_Witness ==
    /\ MasterRun
    /\ running = {[batch |-> ImageAvailability, script |-> ImageAvailability_STEP_3.cmd]}
    /\ \E i \in Indices : trace[i].batch = Clinisys /\ IsScript(i) /\ trace[i].done
    /\ \E i \in Indices : trace[i].batch = Embryoscope /\ IsScript(i) /\ trace[i].done

(* The scripts the image availability pipeline has launched, in order. *)
ImageTrace == SelectSeq(trace, LAMBDA t : t.batch = ImageAvailability)

ImageOrder ==
    << "01_check_image_availability.py", "02_logs_to_bronze.py",
       "03_bronze_to_silver.py", "04_track_changes_to_gold.py",
       "05_cleanup_logs.py" >>

ImageEnded == Returned(ImageAvailability, 0) \/ Returned(ImageAvailability, 1)

(* C9: in the image availability pipeline, when step 1 exits 0 and a       *)
(* results directory is found, 02_logs_to_bronze, 03_bronze_to_silver and  *)
(* 04_track_changes_to_gold run in that order, each only after the         *)
(* previous one exited 0, then 05_cleanup_logs runs exactly once at the    *)
(* end; the batch reports PIPELINE COMPLETED SUCCESSFULLY and exits 0 only *)
(* if steps 1 to 4 all exited 0.                                           *)
C9_ImagePipelineOrder ==
    LET m == ImageTrace
    IN  /\ Len(m) <= Len(ImageOrder)
        /\ \A k \in 1..Len(m) :
              /\ m[k].script = ImageOrder[k]
              /\ \A h \in 1..(k - 1) : m[h].done /\ m[h].exit = 0
        /\ Len(m) >= 2 => m[2].args = <<"--input-dir", env.RESULTS_DIR>>
                          /\ env.RESULTS_DIR # ""
        /\ ImageEnded /\ env.RESULTS_DIR # "" => Len(m) >= 2
        /\ ImageEnded /\ Len(m) >= 4 /\ m[4].exit = 0 => Len(m) = 5 /\ m[5].done
        /\ Said(ImageAvailability, "PIPELINE COMPLETED SUCCESSFULLY!")
              => /\ Returned(ImageAvailability, 0)
                 /\ ~Returned(ImageAvailability, 1)
                 /\ Len(m) = 5
                 /\ \A k \in 1..4 : m[k].done /\ m[k].exit = 0

(* The pipeline has reported success although its cleanup step failed. *)
C9_Witness ==
    /\ Said(ImageAvailability, "PIPELINE COMPLETED SUCCESSFULLY!")
    /\ Returned(ImageAvailability, 0)
    /\ Len(ImageTrace) = 5
    /\ ImageTrace[5].done /\ ImageTrace[5].exit # 0

(* C10: step 1 of the image availability pipeline runs with --mode retry   *)
(* when the batch is called with no argument and with --mode M when called *)
(* with first argument M; it gets --limit L exactly when a second argument *)
(* L is given; called by the master with the single argument new, step 1   *)
(* runs with --mode new and without --limit.                               *)
C10_ModeAndLimit ==
    /\ \A k \in 1..Len(stack) : \A i \in Indices :
          stack[k].batch = ImageAvailability /\ trace[i].script = ImageOrder[1]
          => LET a == stack[k].args
             IN  trace[i].args =
                    <<"--mode", IF Len(a) >= 1 THEN a[1] ELSE "retry">>
                    \o (IF Len(a) >= 2 THEN <<"--limit", a[2]>> ELSE <<>>)
    /\ MasterRun =>
          \A i \in Indices :
              trace[i].script = ImageOrder[1] => trace[i].args = <<"--mode", "new">>

(* Step 1 is running with a limit, called as ...pipeline.bat all 5 *)
C10_Witness ==
    /\ stack # <<>> /\ Top.batch = ImageAvailability /\ Top.args = <<"all", "5">>
    /\ running = {[batch |-> ImageAvailability, script |-> ImageOrder[1]]}
    /\ trace[Len(trace)].args = <<"--mode", "all", "--limit", "5">>

(***************************************************************************)
(* Loads of source files into a bronze table by the hash-based loader.     *)
(***************************************************************************)
run == <<stack, errorlevel, env, running, trace, output, returns,
         api_results, missing, installs>>

(* No batch file is being executed. *)
NoRun ==
    /\ stack = <<>>
    /\ errorlevel = 0
    /\ env = [PARENT_STEP |-> "", MODE |-> "", LIMIT |-> "", RESULTS_DIR |-> "",
              bronze_success |-> "", silver_success |-> ""]
    /\ running = {}
    /\ trace = <<>>
    /\ output = <<>>
    /\ returns = <<>>
    /\ api_results = <<>>
    /\ missing = {}
    /\ installs = <<>>

(* The tables of the image availability pipeline are empty. *)
FreshLake ==
    /\ results = <<>>
    /\ bronze_logs = <<>>
    /\ silver_latest = <<>>
    /\ gold_changes = <<>>

LoadInit == NoRun /\ FreshLake /\ NoLoad /\ NoCheck

(* python 01_load_to_bronze.py for one source file *)
LoadFile ==
    /\ Len(loads) < MaxLoads
    /\ \E file_name \in FileNames, rows \in SourceRows :
          LET loaded == InsertNew(bronze_table, rows, file_name, Len(loads) + 1)
          IN  /\ bronze_table' = loaded
              /\ loads' = Append(loads, [file_name |-> file_name, rows |-> rows,
                                         inserted |-> Len(loaded) - Len(bronze_table)])
    /\ UNCHANGED <<run, lake, checker>>

LoadNext == LoadFile

LoadSpec == LoadInit /\ [][LoadNext]_vars

(* The MD5 digests of the data of the rows of a source file. *)
Digests(rows) == { Md5(rows[k]) : k \in 1..Len(rows) }

(* C11: hash-based loading is idempotent: loading the same source rows a   *)
(* second time inserts no row, and after any sequence of loads the bronze  *)
(* table holds at most one row per distinct row hash; a load inserts just  *)
(* the rows whose hash (of the data columns) was not yet present.          *)
C11_HashLoadIdempotent ==
    /\ \A i, j \in 1..Len(bronze_table) :
          i # j => /\ bronze_table[i].hash # bronze_table[j].hash
                   /\ Md5(bronze_table[i].data) # Md5(bronze_table[j].data)
    /\ \A j \in 1..Len(loads) :
          LET earlier == UNION { Digests(loads[i].rows) : i \in 1..(j - 1) }
          IN  /\ loads[j].inserted = Cardinality(Digests(loads[j].rows) \ earlier)
              /\ \A i \in 1..(j - 1) :
                    loads[i].rows = loads[j].rows => loads[j].inserted = 0
    /\ { bronze_table[i].data : i \in 1..Len(bronze_table) }
          = UNION { { loads[j].rows[k] : k \in 1..Len(loads[j].rows) } :
                      j \in 1..Len(loads) }

(* The rows of a file were inserted, then loaded again from another file   *)
(* at a later time without any insertion; and a file that holds the same   *)
(* row twice has put it into the table once.                               *)
C11_Witness ==
    /\ \E i, j \in 1..Len(loads) :
          /\ i < j /\ loads[i].rows = loads[j].rows
          /\ loads[i].file_name # loads[j].file_name
          /\ loads[i].inserted > 0 /\ loads[j].inserted = 0
    /\ \E j \in 1..Len(loads) :
          /\ Len(loads[j].rows) = 2 /\ loads[j].rows[1] = loads[j].rows[2]
          /\ loads[j].inserted = 1

(***************************************************************************)
(* A run of the image availability pipeline on a data lake that an earlier *)
(* run has left behind.  The earlier run wrote its results directory and   *)
(* got through none, one, two or all three of its steps 2, 3 and 4.        *)
(***************************************************************************)
EarlierStages == {"logs", "bronze", "silver", "gold"}

(* bronze, silver and gold after the earlier run, which checked `checks`   *)
(* and stopped after `stage`.                                              *)
BronzeAfter(checks, stage) ==
    IF stage = "logs" THEN <<>> ELSE LogsToBronze(<<>>, checks)

SilverAfter(checks, stage) ==
    IF stage \in {"silver", "gold"}
    THEN BronzeToSilver(BronzeAfter(checks, stage), EmbryoOrder) ELSE <<>>

GoldAfter(checks, stage) ==
    IF stage = "gold" THEN TrackChanges(<<>>, SilverAfter(checks, stage)) ELSE <<>>

ImageInit ==
    /\ \E mode \in Modes : stack = <<Frame(Master_STEP_3.cmd, <<mode>>)>>
    /\ errorlevel = 0
    /\ env = [PARENT_STEP |-> "", MODE |-> "", LIMIT |-> "", RESULTS_DIR |-> "",
              bronze_success |-> "", silver_success |-> ""]
    /\ running = {}
    /\ trace = <<>>
    /\ output = <<>>
    /\ returns = <<>>
    /\ missing = {}
    /\ installs = <<>>
    /\ api_results \in { dirs \in EarlierDirs : Len(dirs) <= 1 }
    /\ IF api_results = <<>>
       THEN FreshLake
       ELSE \E checks \in Checks("earlier"), stage \in EarlierStages :
               /\ results = <<checks>>
               /\ bronze_logs = BronzeAfter(checks, stage)
               /\ silver_latest = SilverAfter(checks, stage)
               /\ gold_changes = GoldAfter(checks, stage)
    /\ NoLoad
    /\ NoCheck

ImageNext ==
    \/ SetVariables
    \/ ChangeDir
    \/ CondaActivate
    \/ LaunchPython
    \/ PythonExit
    \/ FindResultsDir
    \/ EndBatch

ImageSpec == ImageInit /\ [][ImageNext]_vars

(* The script has exited 0 in this run. *)
Succeeded(script) ==
    \E i \in Indices : trace[i].script = script /\ trace[i].done /\ trace[i].exit = 0

(* The positions of the checks of embryo e in a table. *)
RowsOf(table, e) == { k \in 1..Len(table) : table[k].embryo = e }

(* Row r is a most recent check of its embryo in bronze. *)
MostRecent(r) ==
    /\ \E k \in RowsOf(bronze_logs, r.embryo) : bronze_logs[k] = r
    /\ \A k \in RowsOf(bronze_logs, r.embryo) :
          bronze_logs[k].checked_at <= r.checked_at

(* C12: after step 3 (03_bronze_to_silver) of the image availability       *)
(* pipeline, silver.embryo_image_availability_latest holds exactly one row *)
(* for every embryo that has at least one check in                         *)
(* bronze.embryo_image_availability_logs, no row for any other embryo, and *)
(* that row is the embryo's most recent check.                             *)
C12_SilverIsLatest ==
    Succeeded(ImageAvailability_STEP_3.cmd) =>
        \A e \in Embryos :
            IF RowsOf(bronze_logs, e) = {}
            THEN RowsOf(silver_latest, e) = {}
            ELSE /\ Cardinality(RowsOf(silver_latest, e)) = 1
                 /\ \A k \in RowsOf(silver_latest, e) : MostRecent(silver_latest[k])

(* Step 3 has run on a bronze table in which an embryo has a check of the  *)
(* earlier run and a check with another status of this run.                *)
C12_Witness ==
    /\ Succeeded(ImageAvailability_STEP_3.cmd)
    /\ \E e \in Embryos : \E i, j \in RowsOf(bronze_logs, e) :
          /\ bronze_logs[i].checked_at < bronze_logs[j].checked_at
          /\ bronze_logs[i].status # bronze_logs[j].status
          /\ \E k \in RowsOf(silver_latest, e) : silver_latest[k] = bronze_logs[j]

(* The script whose exit this step is, "" if the step is no exit of a      *)
(* script.                                                                 *)
Exiting ==
    IF /\ trace # <<>> /\ Len(trace') = Len(trace)
       /\ ~trace[Len(trace)].done /\ trace'[Len(trace)].done
    THEN trace[Len(trace)].script ELSE ""

(* C13: bronze.embryo_image_availability_logs is append-only: no step of   *)
(* the pipeline deletes or modifies a row already in the table, and only   *)
(* step 2 (02_logs_to_bronze) adds rows.                                   *)
C13_BronzeAppendOnly ==
    [][/\ Len(bronze_logs') >= Len(bronze_logs)
       /\ SubSeq(bronze_logs', 1, Len(bronze_logs)) = bronze_logs
       /\ bronze_logs' # bronze_logs => Exiting = ImageAvailability_STEP_2.cmd]_vars

(* Step 2 has added the checks of this run behind the checks of the        *)
(* earlier run, and steps 3, 4 and 5 have run after it.                    *)
C13_Witness ==
    /\ Succeeded(ImageAvailability_STEP_5.cmd)
    /\ \E i, j \in 1..Len(bronze_logs) :
          i < j /\ bronze_logs[i].checked_at < bronze_logs[j].checked_at

(* The status of the most recent check of embryo e in bronze, "none" if    *)
(* the embryo has no check.                                                *)
LatestStatus(e) ==
    IF RowsOf(bronze_logs, e) = {} THEN "none"
    ELSE bronze_logs[CHOOSE k \in RowsOf(bronze_logs, e) :
                        MostRecent(bronze_logs[k])].status

(* The status of the last entry of embryo e in gold, "none" if it has no   *)
(* entry.                                                                  *)
PreviousStatus(e) ==
    IF RowsOf(gold_changes, e) = {} THEN "none"
    ELSE gold_changes[CHOOSE k \in RowsOf(gold_changes, e) :
                         \A h \in RowsOf(gold_changes, e) : h <= k].new_status

(* C14: gold.embryo_image_status_changes is an audit trail of status       *)
(* changes: a step 4 (04_track_changes_to_gold) that succeeds keeps the    *)
(* entries it finds and adds one entry for an embryo, from the previously  *)
(* recorded status to the latest status, exactly when the two differ; it   *)
(* adds none when the status is unchanged; no other step writes gold.      *)
C14_GoldTracksChanges ==
    [][/\ Len(gold_changes') >= Len(gold_changes)
       /\ SubSeq(gold_changes', 1, Len(gold_changes)) = gold_changes
       /\ gold_changes' # gold_changes => Exiting = ImageAvailability_STEP_4.cmd
       /\ Exiting = ImageAvailability_STEP_4.cmd /\ trace'[Len(trace)].exit = 0
             => \A e \in Embryos :
                   LET added == RowsOf(gold_changes', e) \ RowsOf(gold_changes, e)
                   IN  IF LatestStatus(e) = PreviousStatus(e)
                       THEN added = {}
                       ELSE /\ Cardinality(added) = 1
                            /\ \A k \in added :
                                  /\ gold_changes'[k].old_status = PreviousStatus(e)
                                  /\ gold_changes'[k].new_status = LatestStatus(e)]_vars

(* Step 4 has succeeded in a run after which gold holds an entry from the  *)
(* status of the earlier run to another status for one embryo, and only    *)
(* the first entry for another embryo, which both runs checked.            *)
C14_Witness ==
    /\ Succeeded(ImageAvailability_STEP_4.cmd)
    /\ \E k \in 1..Len(gold_changes) :
          /\ gold_changes[k].old_status # "none"
          /\ gold_changes[k].old_status # gold_changes[k].new_status
    /\ \E e \in Embryos :
          /\ Cardinality(RowsOf(gold_changes, e)) = 1
          /\ \E k \in RowsOf(gold_changes, e), i, j \in RowsOf(bronze_logs, e) :
                /\ bronze_logs[i].checked_at < bronze_logs[j].checked_at
                /\ gold_changes[k].changed_at = bronze_logs[i].checked_at
                /\ gold_changes[k].new_status = bronze_logs[j].status

(***************************************************************************)
(* The loop of 01_check_image_availability.py over the embryos, as the     *)
(* README describes it: GET/imageruns for each embryo, automatic           *)
(* re-authentication if the token expires, up to 3 attempts per embryo.    *)
(*   pending     the embryos still to check, the current one first         *)
(*   attempt     the attempts made for the current embryo                  *)
(*   token_valid whether the server still accepts the token                *)
(*   checked     the status recorded for every embryo done                 *)
(*   api_calls   every call of the API, with its response                  *)
(***************************************************************************)
max_retries == 3

CheckInit ==
    /\ NoRun /\ FreshLake /\ NoLoad
    /\ pending = EmbryoOrder
    /\ attempt = 0
    /\ token_valid \in BOOLEAN
    /\ checked = <<>>
    /\ api_calls = <<>>

(* Whether another attempt is made after n attempts.  First a loop that    *)
(* makes one attempt too many.                                             *)
MayRetry_OffByOne(n) == n <= max_retries

MayRetry(n) == n < max_retries

(* The status of the current embryo is recorded and the loop goes on with  *)
(* the next embryo.                                                        *)
Record(status) ==
    /\ checked' = Append(checked, [embryo |-> Head(pending), status |-> status,
                                   attempts |-> attempt + 1])
    /\ pending' = Tail(pending)
    /\ attempt' = 0

(* The attempt failed: another attempt if one is left, else the error      *)
(* status is recorded.                                                     *)
FailedAttempt ==
    IF MayRetry(attempt + 1)
    THEN attempt' = attempt + 1 /\ UNCHANGED <<pending, checked>>
    ELSE Record("error")

(* One attempt for the current embryo: the call of GET/imageruns and what  *)
(* the loop does with the response.  A call with an expired token is       *)
(* refused and the client authenticates again, which the server may        *)
(* refuse too.                                                             *)
ApiAttempt ==
    /\ pending # <<>>
    /\ IF token_valid
       THEN \E response \in {"success", "no_response", "error"} :
               /\ api_calls' = Append(api_calls,
                                      [embryo |-> Head(pending), response |-> response,
                                       reauthenticated |-> FALSE])
               /\ IF response = "success" THEN Record("success") ELSE FailedAttempt
               /\ UNCHANGED token_valid
       ELSE /\ api_calls' = Append(api_calls,
                                   [embryo |-> Head(pending), response |-> "unauthorized",
                                    reauthenticated |-> TRUE])
            /\ token_valid' \in BOOLEAN
            /\ FailedAttempt
    /\ UNCHANGED <<run, lake, loader>>

(* The token expires on the server. *)
TokenExpires ==
    /\ pending # <<>>
    /\ token_valid
    /\ token_valid' = FALSE
    /\ UNCHANGED <<pending, attempt, checked, api_calls>>
    /\ UNCHANGED <<run, lake, loader>>

CheckNext == ApiAttempt \/ TokenExpires

CheckSpec == CheckInit /\ [][CheckNext]_vars

(* The calls of the API made for embryo e. *)
CallsOf(e) == { k \in 1..Len(api_calls) : api_calls[k].embryo = e }

AboutToStart(b, step) ==
    /\ stack # <<>> /\ Top.batch = b /\ Top.wait = "none" /\ Cur = step

(* The script of batch b launched after trace[i]. *)
StartedAfter(b, script, i) ==
    { j \in Indices : j > i /\ trace[j].batch = b /\ trace[j].script = script }

(* C16: in the Clinisys dataflow batch a non-zero exit of                  *)
(* 02_02_compare_bronze_and_silver.py does not stop the run: the batch     *)
(* prints a warning, 03_silver_to_gold.py is the next script it starts,    *)
(* and the batch returns exit code 0 if 03_silver_to_gold.py exits 0.      *)
C16_CompareDoesNotStop ==
    \A i \in Indices :
        /\ trace[i].batch = Clinisys /\ trace[i].script = Clinisys_STEP_3.cmd
        /\ trace[i].done /\ trace[i].exit # 0
        => LET gold == StartedAfter(Clinisys, Clinisys_STEP_4.cmd, i)
           IN  /\ Said(Clinisys, "WARNING: ")
               /\ gold = {} => AboutToStart(Clinisys, Clinisys_STEP_4)
               /\ gold # {} => i + 1 \in gold
               /\ \A g \in gold :
                     trace[g].done /\ trace[g].exit = 0
                     => /\ ~Returned(Clinisys, 1)
                        /\ \/ Returned(Clinisys, 0)
                           \/ stack # <<>> /\ Top.batch = Clinisys /\ Cur.kind = "end"

(* The Clinisys dataflow has returned 0 after its comparison script exited *)
(* non-zero and its gold script exited 0.                                  *)
C16_Witness ==
    /\ Returned(Clinisys, 0)
    /\ \E i \in Indices :
          /\ trace[i].batch = Clinisys /\ trace[i].script = Clinisys_STEP_3.cmd
          /\ trace[i].exit # 0
          /\ \E g \in StartedAfter(Clinisys, Clinisys_STEP_4.cmd, i) :
                trace[g].done /\ trace[g].exit = 0

(* The batch file b has echoed the message text. *)
SaidText(b, text) == \E m \in 1..Len(output) : output[m] = [batch |-> b, text |-> text]

(* The launches of a script by the full Clinisys dataflow. *)
FullClinisysRan(script) ==
    { i \in Indices : trace[i].batch = FullClinisys /\ trace[i].script = script }

(* The full Clinisys dataflow has made its configuration check: it has     *)
(* failed, or the database copy has terminated.                            *)
ConfigChecked ==
    \/ SaidText(FullClinisys, FullClinisys_ConfigCheck.text)
    \/ \E i \in FullClinisysRan(FullClinisys_Step_1.cmd) : trace[i].done

(* The silver loader is started whatever the configuration check and the   *)
(* database copy did.                                                      *)
SilverLoaderStarted ==
    ConfigChecked =>
        \/ FullClinisysRan(FullClinisys_Step_2.cmd) # {}
        \/ AboutToStart(FullClinisys, FullClinisys_Step_2)

(* The silver loader has failed: it exited with code 1 or more, the batch  *)
(* printed the error and no later step was started.                        *)
SilverLoaderFailed ==
    /\ \E i \in FullClinisysRan(FullClinisys_Step_2.cmd) :
          trace[i].done /\ trace[i].exit >= 1 /\ i = Len(trace)
    /\ SaidText(FullClinisys, FullClinisys_Step_2.text)

(* C17 as stated: in the full Clinisys dataflow batch the silver loader is *)
(* always started, whether the configuration check failed, the database    *)
(* copy failed or the copy succeeded; only a failure of the silver loader  *)
(* itself makes the batch exit with code 1.                                *)
C17_OnlySilverFailureExits ==
    /\ SilverLoaderStarted
    /\ Returned(FullClinisys, 1) => SilverLoaderFailed

(* C17 amended: once the environment checks have passed, the silver loader *)
(* is always started, whether the configuration check failed, the database *)
(* copy failed or the copy succeeded; among the steps only a failure of    *)
(* the silver loader (exit code 1 or more) makes the batch print an error  *)
(* and exit with code 1.  The batch also exits with code 1 before any step *)
(* when conda activate, python --version or the package install fails, and *)
(* it ends with the exit code of check_tables.py, which can be 1, because  *)
(* it has no exit /b at its end.                                           *)
C17_SilverAlwaysStarted ==
    /\ SilverLoaderStarted
    /\ \A i \in FullClinisysRan(FullClinisys_Step_2.cmd) :
          trace[i].done /\ trace[i].exit >= 1
          => SilverLoaderFailed /\ Returned(FullClinisys, 1)
    /\ Returned(FullClinisys, 1) =>
          \/ SilverLoaderFailed
          \/ /\ trace = <<>> /\ ~ConfigChecked
             /\ Said(FullClinisys, "ERROR: ")
          \/ /\ SaidText(FullClinisys, FullClinisysDataflow[Len(FullClinisysDataflow)].text)
             /\ ~Said(FullClinisys, "ERROR: ")
             /\ \E i \in FullClinisysRan(FullClinisys_Step_3.cmd) :
                   trace[i].done /\ trace[i].exit = 1 /\ i = Len(trace)

(* The database copy failed, the silver loader was started all the same    *)
(* and failed, and the batch has exited with code 1.                       *)
C17_Witness ==
    /\ Returned(FullClinisys, 1)
    /\ SilverLoaderFailed
    /\ \E i \in FullClinisysRan(FullClinisys_Step_1.cmd) : trace[i].exit >= 1
    /\ SaidText(FullClinisys, FullClinisys_Step_1.text)

(* No directory api_results\<MODE>_* exists. *)
NoMatchingDir == \A i \in 1..Len(api_results) : api_results[i].mode # env.MODE

(* C18: in the image availability pipeline batch, if after a step 1 that   *)
(* exited 0 no directory matching api_results\<MODE>_* exists, the batch   *)
(* exits with code 0 and starts none of the steps 2, 3, 4 and 5.           *)
C18_NoResultsDirExitsZero ==
    /\ Len(ImageTrace) >= 1 /\ ImageTrace[1].done /\ ImageTrace[1].exit = 0
    /\ NoMatchingDir
    => /\ Len(ImageTrace) = 1
       /\ ~Returned(ImageAvailability, 1)
       /\ \/ /\ Returned(ImageAvailability, 0)
             /\ SaidText(ImageAvailability, FindDir.text)
             /\ ~Said(ImageAvailability, "PIPELINE COMPLETED SUCCESSFULLY!")
          \/ AboutToStart(ImageAvailability, FindDir)

(* The pipeline has exited with code 0 after step 1 alone: step 1 wrote no *)
(* directory and the only directory there is belongs to another mode.      *)
C18_Witness ==
    /\ Returned(ImageAvailability, 0)
    /\ Len(ImageTrace) = 1 /\ ImageTrace[1].exit = 0
    /\ NoMatchingDir
    /\ api_results # <<>>
    /\ SaidText(ImageAvailability, FindDir.text)

(* C19: the results directory handed to step 2 of the image availability   *)
(* pipeline (--input-dir) was created by step 1 of the same run; the       *)
(* directory of an earlier run with the same mode is not ingested again.   *)
C19_ResultsDirOfSameRun ==
    \A k \in 1..Len(trace) :
        trace[k].batch = ImageAvailability /\ trace[k].script = ImageAvailability_STEP_2.cmd
        => \E i \in 1..Len(api_results) :
              /\ api_results[i].run = "current"
              /\ trace[k].args = <<"--input-dir", DirName(api_results[i])>>

(* The script has exited with a non-zero code in a run of batch b. *)
FailedIn(b, script) ==
    \E i \in Indices :
        /\ trace[i].batch = b /\ trace[i].script = script
        /\ trace[i].done /\ trace[i].exit # 0

(* Batch b has ended. *)
HasEnded(b) == \E r \in 1..Len(returns) : returns[r].batch = b

(* C20: a failing cleanup step never changes the outcome of a run: if      *)
(* 05_cleanup_logs.py fails, the image availability pipeline still reports *)
(* success and exits 0, and if cleanup_old_logs.py fails, the master       *)
(* dataflow still prints its success message.                              *)
C20_CleanupFailureIgnored ==
    /\ FailedIn(ImageAvailability, ImageAvailability_STEP_5.cmd) /\ ImageEnded
        => /\ Said(ImageAvailability, "PIPELINE COMPLETED SUCCESSFULLY!")
           /\ SaidText(ImageAvailability, ImageAvailability_STEP_5.text)
           /\ Returned(ImageAvailability, 0)
           /\ ~Returned(ImageAvailability, 1)
    /\ FailedIn(Master, Master_STEP_11.cmd) /\ HasEnded(Master)
        => /\ Said(Master, "COMPLETE DATAFLOW FINISHED SUCCESSFULLY!")
           /\ SaidText(Master, Master_STEP_11.text)

(* A master run has ended in which both the cleanup of the image pipeline  *)
(* it called and its own log cleanup failed.                               *)
C20_Witness ==
    /\ HasEnded(Master)
    /\ FailedIn(Master, Master_STEP_11.cmd)
    /\ FailedIn(ImageAvailability, ImageAvailability_STEP_5.cmd)
    /\ Returned(ImageAvailability, 0)
    /\ Said(Master, "COMPLETE DATAFLOW FINISHED SUCCESSFULLY!")

(* The message of the master's dependency check. *)
InstallFailedText == <<"ERROR: ", "Failed to install required packages">>

(* C21: in the master dataflow, when the dependency import check fails and *)
(* the following pip install -r requirements.txt succeeds, the master goes *)
(* on to STEP 1; it exits with 'ERROR: Failed to install required          *)
(* packages' only when pip install itself returned a non-zero exit code.   *)
C21_ExitsOnlyWhenPipFails ==
    \A k \in 1..Len(installs) :
        installs[k].batch = Master =>
            /\ SaidText(Master, InstallFailedText)
                  => installs[k].pip # <<>> /\ installs[k].pip[1] # 0
            /\ installs[k].import # 0 /\ installs[k].pip = <<0>>
                  => /\ ~SaidText(Master, InstallFailedText)
                     /\ HasEnded(Master) => MasterTrace # <<>>

====
